---- MODULE Spec2Model ----
(***************************************************************************)
(* Model of src/main.ts of github-action-required-reviews: the rule        *)
(* evaluator `check`, the approver-set resolver `getPossibleApprovers`,    *)
(* the override evaluator `checkOverride`, the approval derivation of      *)
(* `getApprovals` and the control flow of `run`.                           *)
(*                                                                         *)
(* Strings that the code inspects character by character (file paths,     *)
(* path prefixes, regular expressions) and the strings used as property    *)
(* keys of an enumerated object (path prefixes, logins) are sequences of   *)
(* one-character strings; team names, which are only looked up, are TLA+   *)
(* strings.  An optional field is None (absent) or Some(v).                *)
(***************************************************************************)
EXTENDS Integers, Sequences, FiniteSets, TLC

VARIABLES
  pc,                \* position of the modelled call / of run()
  reviewersConfig,   \* None, or Some(the parsed .github/reviewers.json)
  modifiedFilepaths, \* string[]: the paths the change touches
  approvals,         \* string[]: logins whose latest review is APPROVED
  committers,        \* (string | undefined)[]: one entry per commit
  checkResult,       \* outcome of check(): return value or throw, and its log
  overrideResult,    \* return value of checkOverride()
  prReviews,         \* listReviews data, chronological
  reviewIdx,         \* next element of prReviews.data.forEach
  reviewStatus,      \* the object reviewStatus, own keys in insertion order
  postReview,        \* input post-review === "true"
  eventName,         \* github.context.eventName
  approved,          \* run(): const approved
  override,          \* run(): const override
  postedReviews,     \* events sent through pulls.createReview, in order
  failedMessages,    \* messages given to core.setFailed, in order
  evaluated,         \* evaluator functions run() has called, in order
  verdict            \* branch of run() taken after evaluation

vars == <<pc, reviewersConfig, modifiedFilepaths, approvals, committers,
          checkResult, overrideResult, prReviews, reviewIdx, reviewStatus,
          postReview, eventName, approved, override, postedReviews,
          failedMessages, evaluated, verdict>>

----------------------------------------------------------------------------
(* Bounds of the model.                                                     *)

MaxRules == 2
MaxFiles == 2
MaxCount == 2
MaxReviews == 3
MaxOverrides == 2
MaxCommits == 2

----------------------------------------------------------------------------
(* Values.                                                                  *)

None == <<>>
Some(v) == <<v>>
IsSome(o) == Len(o) = 1
Get(o) == o[1]

\* the values undefined and null, distinct from every string
Undefined == <<"<undefined>">>
Null == <<"<null>">>

Range(s) == {s[i] : i \in 1..Len(s)}

\* all sequences over S of length at most n
SeqsUpTo(S, n) == UNION {[1..k -> S] : k \in 0..n}

\* sequences without repeated elements
NoDup(s) == \A i, j \in 1..Len(s) : i # j => s[i] # s[j]

\* logins "alice", "bob" and "bot", and "7", a login that is an array index
alice == <<"a", "l", "i", "c", "e">>
bob == <<"b", "o", "b">>
bot == <<"b", "o", "t">>
seven == <<"7">>
Users == {alice, bob}
ReviewerLogins == Users \cup {seven}
TeamNames == {"core"}

Digits == {"0", "1", "2", "3", "4", "5", "6", "7", "8", "9"}
DigitValue == [c \in Digits |->
                 CASE c = "0" -> 0 [] c = "1" -> 1 [] c = "2" -> 2
                   [] c = "3" -> 3 [] c = "4" -> 4 [] c = "5" -> 5
                   [] c = "6" -> 6 [] c = "7" -> 7 [] c = "8" -> 8
                   [] c = "9" -> 9]
\* the numeral of the greatest array index, 2^32 - 2
GreatestArrayIndex == <<"4", "2", "9", "4", "9", "6", "7", "2", "9", "4">>

\* path prefixes used as keys of the reviewers mapping: "s", "sa", "1"
PrefixPool == {<<"s">>, <<"s", "a">>, <<"1">>}
\* modified file paths "sab", "as", "1", in the order the API lists them
FilePool == <<<<"s", "a", "b">>, <<"a", "s">>, <<"1">>>>

\* file lists of at most n of these paths, each path once
FileLists(n) ==
  {SelectSeq(FilePool, LAMBDA f : f \in chosen) :
     chosen \in {c \in SUBSET Range(FilePool) : Cardinality(c) <= n}}

----------------------------------------------------------------------------
(* String.prototype.startsWith                                              *)

startsWith(file, prefix) ==
  /\ Len(prefix) <= Len(file)
  /\ SubSeq(file, 1, Len(prefix)) = prefix

----------------------------------------------------------------------------
(* Property enumeration order of `for (const key in obj)` on an ordinary   *)
(* object: keys that are canonical array indices (the numerals of 0 up to  *)
(* 2^32 - 2, without a leading zero) come first, in ascending numeric      *)
(* order, then the other string keys in the order they were created.       *)
(* Numerals are compared by length and then digit by digit, which is       *)
(* their numeric order and needs no integer wider than a digit.            *)

\* a < b for numerals of equal length
DigitsLess(a, b) ==
  \E i \in 1..Len(a) :
    /\ DigitValue[a[i]] < DigitValue[b[i]]
    /\ \A j \in 1..(i - 1) : a[j] = b[j]

\* a <= b for numerals without a leading zero
NumeralLessOrEqual(a, b) ==
  \/ Len(a) < Len(b)
  \/ Len(a) = Len(b) /\ (a = b \/ DigitsLess(a, b))

IsArrayIndex(key) ==
  /\ Len(key) >= 1
  /\ \A i \in 1..Len(key) : key[i] \in Digits
  /\ (Len(key) > 1 => key[1] # "0")
  /\ NumeralLessOrEqual(key, GreatestArrayIndex)

RECURSIVE AscendingIndexKeys(_)
AscendingIndexKeys(keys) ==
  IF keys = {} THEN <<>>
  ELSE LET least == CHOOSE k \in keys :
                      \A o \in keys : NumeralLessOrEqual(k, o)
       IN  <<least>> \o AscendingIndexKeys(keys \ {least})

\* the declared keys of an object, given as a sequence of [key, value] records
DeclaredKeys(entries) == [i \in 1..Len(entries) |-> entries[i].key]

ForInKeys(entries) ==
  LET declared == DeclaredKeys(entries)
  IN  AscendingIndexKeys({k \in Range(declared) : IsArrayIndex(k)})
        \o SelectSeq(declared, LAMBDA k : ~IsArrayIndex(k))

\* obj[key] for a key the object owns
Lookup(entries, key) ==
  entries[CHOOSE i \in 1..Len(entries) : entries[i].key = key].value

----------------------------------------------------------------------------
(* getPossibleApprovers: conf.users || [] united with teams[team].users of *)
(* every named team.  teams[team] of a team the mapping does not own is    *)
(* undefined, and reading .users of undefined throws a TypeError.          *)

\* mutant: the members of the named teams are left out
getPossibleApprovers_UsersOnly(conf, teams) ==
  LET namedUsers == IF IsSome(conf.users) THEN Get(conf.users) ELSE <<>>
      namedTeams == IF IsSome(conf.teams) THEN Get(conf.teams) ELSE <<>>
  IN  IF \E i \in 1..Len(namedTeams) : namedTeams[i] \notin DOMAIN teams
      THEN [threw |-> TRUE, error |-> "TypeError"]
      ELSE [threw |-> FALSE, set |-> Range(namedUsers)]

\* mutant: a team the mapping lacks is read as a team without members
getPossibleApprovers_AbsentTeamEmpty(conf, teams) ==
  LET namedUsers == IF IsSome(conf.users) THEN Get(conf.users) ELSE <<>>
      namedTeams == IF IsSome(conf.teams) THEN Get(conf.teams) ELSE <<>>
  IN  [threw |-> FALSE,
       set |-> Range(namedUsers) \cup
               UNION {IF namedTeams[i] \in DOMAIN teams
                      THEN Range(teams[namedTeams[i]].users) ELSE {} :
                        i \in 1..Len(namedTeams)}]

getPossibleApprovers(conf, teams) ==
  LET namedUsers == IF IsSome(conf.users) THEN Get(conf.users) ELSE <<>>
      namedTeams == IF IsSome(conf.teams) THEN Get(conf.teams) ELSE <<>>
  IN  IF \E i \in 1..Len(namedTeams) : namedTeams[i] \notin DOMAIN teams
      THEN [threw |-> TRUE, error |-> "TypeError"]
      ELSE [threw |-> FALSE,
            set |-> Range(namedUsers) \cup
                    UNION {Range(teams[namedTeams[i]].users) :
                             i \in 1..Len(namedTeams)}]

----------------------------------------------------------------------------
(* check: one iteration of the loop over the reviewers mapping, and the    *)
(* whole call.  The state of the call is [outcome, approved, log]; a throw *)
(* ends the call with the log written so far and no return value.          *)

\* mutant: `<=` in place of `<`
requirementMissed_LessOrEqual(count, required) == count <= required

\* the test `count < reviewRequirements.requiredApproverCount`
requirementMissed(count, required) == count < required

\* the warning names the affected files, the requirement and the approvals
\* found; it does not name the rule's prefix
WarnMessage(affectedFiles, conf, relevantApprovals) ==
  [level |-> "warning", files |-> affectedFiles,
   required |-> conf.requiredApproverCount,
   users |-> conf.users, teams |-> conf.teams,
   count |-> Len(relevantApprovals), found |-> relevantApprovals]

\* `${prefix} review requirements met.`
InfoMessage(prefix) == [level |-> "info", prefix |-> prefix]

checkRule(config, files, approvers, st, prefix) ==
  LET affectedFiles == SelectSeq(files, LAMBDA file : startsWith(file, prefix))
  IN  IF Len(affectedFiles) > 0
      THEN LET reviewRequirements == Lookup(config.reviewers, prefix)
               possibleApprovers ==
                 getPossibleApprovers(
                   reviewRequirements,
                   IF IsSome(config.teams) THEN Get(config.teams) ELSE <<>>)
           IN  IF possibleApprovers.threw
               THEN [outcome |-> "thrown", error |-> possibleApprovers.error,
                     log |-> st.log]
               ELSE LET relevantApprovals ==
                          SelectSeq(approvers,
                                    LAMBDA user : user \in possibleApprovers.set)
                        count == Len(relevantApprovals)
                    IN  IF requirementMissed(count,
                                             reviewRequirements.requiredApproverCount)
                        THEN [outcome |-> "running", approved |-> FALSE,
                              log |-> Append(st.log,
                                        WarnMessage(affectedFiles,
                                                    reviewRequirements,
                                                    relevantApprovals))]
                        ELSE [outcome |-> "running", approved |-> st.approved,
                              log |-> Append(st.log, InfoMessage(prefix))]
      ELSE st

\* mutant: `return approved` inside the loop, after the first rule
checkLoop_ReturnInsideLoop(config, files, approvers, keys, i, st) ==
  IF i > Len(keys)
  THEN [outcome |-> "returned", approved |-> st.approved, log |-> st.log]
  ELSE LET next == checkRule(config, files, approvers, st, keys[i])
       IN  IF next.outcome = "thrown" THEN next
           ELSE [outcome |-> "returned", approved |-> next.approved,
                 log |-> next.log]

RECURSIVE checkLoop(_, _, _, _, _, _)
checkLoop(config, files, approvers, keys, i, st) ==
  IF st.outcome = "thrown" THEN st
  ELSE IF i > Len(keys)
       THEN [outcome |-> "returned", approved |-> st.approved, log |-> st.log]
       ELSE checkLoop(config, files, approvers, keys, i + 1,
                      checkRule(config, files, approvers, st, keys[i]))

check(config, files, approvers) ==
  checkLoop(config, files, approvers, ForInKeys(config.reviewers), 1,
            [outcome |-> "running", approved |-> TRUE, log |-> <<>>])

----------------------------------------------------------------------------
(* new RegExp(pattern).test(str) for the pattern language                  *)
(*   pattern ::= ["^"] atom* ["$"],  atom ::= char ["*" | "+" | "?"]       *)
(* where char is "." or a character that is not a syntax character.  "."   *)
(* matches one character that is not a line terminator; a quantifier       *)
(* repeats the one character before it; without an anchor the pattern may  *)
(* match anywhere in the string.  test() answers whether some match        *)
(* exists, so the order in which the engine tries the repetitions does     *)
(* not matter.  Classes, groups, alternation, escapes, braces and lazy     *)
(* quantifiers are outside the language, and RegExpTest has no value on    *)
(* them.                                                                   *)

\* LF, CR, U+2028 and U+2029, each standing for its one character
LineTerminators == {"\n", "\r", "<LS>", "<PS>"}
Quantifiers == {"*", "+", "?"}
SyntaxCharacters ==
  {"^", "$", "\\", ".", "*", "+", "?", "(", ")", "[", "]", "{", "}", "|"}

PatternBody(pattern) ==
  LET anchoredStart == Len(pattern) >= 1 /\ pattern[1] = "^"
      anchoredEnd == Len(pattern) >= 1 /\ pattern[Len(pattern)] = "$"
  IN  SubSeq(pattern,
             IF anchoredStart THEN 2 ELSE 1,
             IF anchoredEnd THEN Len(pattern) - 1 ELSE Len(pattern))

InPatternLanguage(pattern) ==
  LET body == PatternBody(pattern)
  IN  \A i \in 1..Len(body) :
        \/ body[i] \notin SyntaxCharacters
        \/ body[i] = "."
        \/ /\ body[i] \in Quantifiers
           /\ i > 1
           /\ body[i - 1] \notin Quantifiers

CharacterMatches(atom, ch) ==
  IF atom = "." THEN ch \notin LineTerminators ELSE ch = atom

\* body[i..] matches str from offset j, up to the end of str if anchoredEnd
RECURSIVE MatchFrom(_, _, _, _, _)
MatchFrom(body, i, str, j, anchoredEnd) ==
  IF i > Len(body) THEN (anchoredEnd => j = Len(str))
  ELSE LET atom == body[i]
           quantifier == IF i < Len(body) /\ body[i + 1] \in Quantifiers
                         THEN body[i + 1] ELSE "1"
           least == IF quantifier \in {"1", "+"} THEN 1 ELSE 0
           most == IF quantifier \in {"1", "?"} THEN 1 ELSE Len(str) - j
           next == IF quantifier = "1" THEN i + 1 ELSE i + 2
       IN  \E n \in least..most :
             /\ j + n <= Len(str)
             /\ \A k \in 1..n : CharacterMatches(atom, str[j + k])
             /\ MatchFrom(body, next, str, j + n, anchoredEnd)

RegExpTest(pattern, str) ==
  CASE InPatternLanguage(pattern) ->
    LET anchoredStart == Len(pattern) >= 1 /\ pattern[1] = "^"
        anchoredEnd == Len(pattern) >= 1 /\ pattern[Len(pattern)] = "$"
    IN  \E at \in 0..Len(str) :
          /\ anchoredStart => at = 0
          /\ MatchFrom(PatternBody(pattern), 1, str, at, anchoredEnd)

----------------------------------------------------------------------------
(* checkOverride.  Array.prototype.every and some are the quantifiers over *)
(* the elements of the array: the tests have no side effect, so the short  *)
(* circuit does not change the result.                                     *)

\* crit.onlyModifiedFileRegExs?.some((pattern) => new RegExp(pattern).test(file))
somePatternMatches(patterns, modifiedFile) ==
  \E k \in 1..Len(patterns) : RegExpTest(patterns[k], modifiedFile)

\* mutant: the file clause overwrites `maybe` instead of `maybe && ...`
criteriaSatisfied_FileClauseOverwrites(crit, files, modifiedByUsers) ==
  LET maybe1 ==
        IF IsSome(crit.onlyModifiedByUsers)
        THEN \A i \in 1..Len(modifiedByUsers) :
               /\ modifiedByUsers[i] # Undefined
               /\ modifiedByUsers[i] \in Range(Get(crit.onlyModifiedByUsers))
        ELSE TRUE
  IN  IF IsSome(crit.onlyModifiedFileRegExs)
      THEN \A j \in 1..Len(files) :
             somePatternMatches(Get(crit.onlyModifiedFileRegExs), files[j])
      ELSE maybe1

criteriaSatisfied(crit, files, modifiedByUsers) ==
  LET maybe0 == TRUE
      maybe1 ==
        IF IsSome(crit.onlyModifiedByUsers)
        THEN LET testSet == Range(Get(crit.onlyModifiedByUsers))
             IN  maybe0 /\ \A i \in 1..Len(modifiedByUsers) :
                             /\ modifiedByUsers[i] # Undefined
                             /\ modifiedByUsers[i] \in testSet
        ELSE maybe0
      maybe2 ==
        IF IsSome(crit.onlyModifiedFileRegExs)
        THEN maybe1 /\ \A j \in 1..Len(files) :
                         somePatternMatches(Get(crit.onlyModifiedFileRegExs),
                                            files[j])
        ELSE maybe1
  IN  maybe2

checkOverride(overrides, files, modifiedByUsers) ==
  \E n \in 1..Len(overrides) :
    criteriaSatisfied(overrides[n], files, modifiedByUsers)

----------------------------------------------------------------------------
(* getApprovals: the forEach callback over the reviews, the collecting     *)
(* loop, and the whole derivation.  reviewStatus is the sequence of the    *)
(* object's [key, value] properties in creation order; assigning to a key  *)
(* the object owns keeps the key's position.  The collecting loop is a     *)
(* for-in: it visits the logins that are array indices first, ascending,   *)
(* and then the other logins in creation order.                            *)

ReviewStates == {"APPROVED", "CHANGES_REQUESTED", "COMMENTED", "DISMISSED"}

SetProperty(entries, key, value) ==
  IF \E i \in 1..Len(entries) : entries[i].key = key
  THEN [i \in 1..Len(entries) |->
          IF entries[i].key = key THEN [key |-> key, value |-> value]
          ELSE entries[i]]
  ELSE Append(entries, [key |-> key, value |-> value])

\* mutant: COMMENTED reviews are recorded like the others
recordReview_CommentedRecorded(status, review) ==
  IF review.user # Null
  THEN SetProperty(status, review.user, review.state)
  ELSE status

recordReview(status, review) ==
  IF review.user # Null /\ review.state # "COMMENTED"
  THEN SetProperty(status, review.user, review.state)
  ELSE status

collectApprovals(status) ==
  SelectSeq(ForInKeys(status), LAMBDA user : Lookup(status, user) = "APPROVED")

RECURSIVE recordReviews(_, _, _)
recordReviews(status, reviews, i) ==
  IF i > Len(reviews) THEN status
  ELSE recordReviews(recordReview(status, reviews[i]), reviews, i + 1)

getApprovals(reviews) == collectApprovals(recordReviews(<<>>, reviews, 1))

----------------------------------------------------------------------------
(* Inputs of the model.                                                     *)

\* a rule names the user alice, the team core, or both
RuleConfs ==
  {conf \in [users : {None, Some(<<alice>>)},
             teams : {None, Some(<<"core">>)},
             requiredApproverCount : 0..MaxCount] :
     IsSome(conf.users) \/ IsSome(conf.teams)}

\* reviewers mappings of at most n rules, keys unique, in declared order
ReviewerMappings(n) ==
  {m \in SeqsUpTo([key : PrefixPool, value : RuleConfs], n) :
     NoDup(DeclaredKeys(m))}

\* the teams key: absent, or a mapping that owns the team "core"
TeamsPool == {None, Some([t \in TeamNames |-> [users |-> <<bob>>]])}

ApprovalLists == {<<>>, <<alice>>, <<bob>>, <<alice, bob>>}

CheckConfigs ==
  [teams : TeamsPool, reviewers : ReviewerMappings(MaxRules), overrides : {None}]

CommitterPool == {bot, alice, Undefined}

\* patterns "^s", "s$", "1"
OverridePool ==
  [onlyModifiedByUsers : {None, Some(<<bot>>), Some(<<bot, alice>>)},
   onlyModifiedFileRegExs :
     {None, Some(<<>>), Some(<< <<"^", "s">> >>),
      Some(<< <<"s", "$">>, <<"1">> >>)}]

ReviewPool == [user : ReviewerLogins \cup {Null}, state : ReviewStates]

RunOverridePool ==
  [onlyModifiedByUsers : {None, Some(<<bot>>)},
   onlyModifiedFileRegExs : {None, Some(<< <<"^", "s">> >>)}]

RunConfigs ==
  [teams : TeamsPool,
   reviewers : ReviewerMappings(1),
   overrides : {None, Some(<<>>)} \cup {Some(<<o>>) : o \in RunOverridePool}]

RunFiles == FileLists(1)

RunReviews ==
  {<<>>,
   <<[user |-> alice, state |-> "APPROVED"]>>,
   <<[user |-> alice, state |-> "APPROVED"],
     [user |-> bob, state |-> "APPROVED"],
     [user |-> alice, state |-> "CHANGES_REQUESTED"]>>,
   <<[user |-> bob, state |-> "APPROVED"],
     [user |-> seven, state |-> "APPROVED"]>>}

RunCommitters == SeqsUpTo(CommitterPool, 1)

EventNames == {"pull_request", "pull_request_review", "push"}

----------------------------------------------------------------------------
(* Value of checkResult and overrideResult before the call.                 *)

NotCalled == [outcome |-> "none"]

----------------------------------------------------------------------------
(* SpecCheck: one call of check on every policy, file list and approvals.  *)

InitCheck ==
  /\ pc = "check.call"
  /\ reviewersConfig \in {Some(c) : c \in CheckConfigs}
  /\ modifiedFilepaths \in FileLists(MaxFiles)
  /\ approvals \in ApprovalLists
  /\ committers = <<>>
  /\ checkResult = NotCalled
  /\ overrideResult = NotCalled
  /\ prReviews = <<>>
  /\ reviewIdx = 1
  /\ reviewStatus = <<>>
  /\ postReview = FALSE
  /\ eventName = "pull_request"
  /\ approved = None
  /\ override = None
  /\ postedReviews = <<>>
  /\ failedMessages = <<>>
  /\ evaluated = <<>>
  /\ verdict = "none"

CallCheck ==
  /\ pc = "check.call"
  /\ checkResult' = check(Get(reviewersConfig), modifiedFilepaths, approvals)
  /\ pc' = "check.done"
  /\ UNCHANGED <<reviewersConfig, modifiedFilepaths, approvals, committers,
                 overrideResult, prReviews, reviewIdx, reviewStatus, postReview,
                 eventName, approved, override, postedReviews, failedMessages,
                 evaluated, verdict>>

NextCheck == CallCheck

SpecCheck == InitCheck /\ [][NextCheck]_vars

----------------------------------------------------------------------------
(* Vocabulary of the properties of check, stated on the policy itself.     *)

Policy == Get(reviewersConfig)
Rules == Policy.reviewers
OwnedTeams == IF IsSome(Policy.teams) THEN DOMAIN Get(Policy.teams) ELSE {}
NamedTeams(conf) == IF IsSome(conf.teams) THEN Range(Get(conf.teams)) ELSE {}
NamedUsers(conf) == IF IsSome(conf.users) THEN Range(Get(conf.users)) ELSE {}

\* prefix is a literal string prefix of path
IsPrefixOf(prefix, path) == \E rest \in {SubSeq(path, k, Len(path)) : k \in 1..Len(path) + 1} :
                              path = prefix \o rest

RuleMatches(rule) ==
  \E i \in 1..Len(modifiedFilepaths) : IsPrefixOf(rule.key, modifiedFilepaths[i])

NamesAbsentTeam(rule) == \E t \in NamedTeams(rule.value) : t \notin OwnedTeams

\* rule.users united with the members of every team of rule.teams
ResolvedApprovers(rule) ==
  NamedUsers(rule.value) \cup
    {u \in Users : \E t \in NamedTeams(rule.value) \cap OwnedTeams :
                     u \in Range(Get(Policy.teams)[t].users)}

RuleSatisfied(rule) ==
  Cardinality(Range(approvals) \cap ResolvedApprovers(rule))
    >= rule.value.requiredApproverCount

CheckDone == pc = "check.done"
CheckReturned == CheckDone /\ checkResult.outcome = "returned"
CheckThrew == CheckDone /\ checkResult.outcome = "thrown"

\* C1: when every referenced team exists, check returns true exactly when
\* every rule whose prefix is a literal prefix of some modified path has at
\* least requiredApproverCount approvals from its resolved approver set;
\* unmatched rules do not count, so no rules or no files gives true.
C1_CheckIffMatchedRulesSatisfied ==
  (CheckDone /\ \A i \in 1..Len(Rules) : ~NamesAbsentTeam(Rules[i]))
    => /\ checkResult.outcome = "returned"
       /\ checkResult.approved
            <=> \A i \in 1..Len(Rules) :
                  RuleMatches(Rules[i]) => RuleSatisfied(Rules[i])
       /\ (Rules = <<>> \/ modifiedFilepaths = <<>>) => checkResult.approved

\* a matched rule that needs a named user and a team member is satisfied,
\* while an unmatched rule of the same policy would not be
C1_Witness ==
  /\ CheckReturned
  /\ checkResult.approved
  /\ \E i, j \in 1..Len(Rules) :
       /\ RuleMatches(Rules[i])
       /\ Rules[i].value.requiredApproverCount = 2
       /\ NamedTeams(Rules[i].value) # {}
       /\ ~RuleMatches(Rules[j])
       /\ ~RuleSatisfied(Rules[j])

\* C3 as claimed: a rule that names a team the teams mapping lacks ends the
\* evaluation in an error, whether or not its prefix matches a modified file.
C3_AbsentTeamAlwaysThrows ==
  (CheckDone /\ \E i \in 1..Len(Rules) : NamesAbsentTeam(Rules[i]))
    => checkResult.outcome = "thrown"

\* C3 amended: check ends in an error, without a return value, exactly when a
\* rule whose prefix matches a modified file names a team the mapping lacks;
\* a missing team is never read as an empty team, and a rule that matches no
\* file is not resolved at all.
C3_MatchedAbsentTeamThrows ==
  CheckDone =>
    /\ checkResult.outcome = "thrown"
         <=> \E i \in 1..Len(Rules) :
               RuleMatches(Rules[i]) /\ NamesAbsentTeam(Rules[i])
    /\ checkResult.outcome = "thrown" => "approved" \notin DOMAIN checkResult

\* the only rule that matches names a missing team and would pass if the
\* team were read as empty (its named user approved)
C3_Witness ==
  /\ CheckThrew
  /\ \E i \in 1..Len(Rules) :
       /\ RuleMatches(Rules[i])
       /\ NamesAbsentTeam(Rules[i])
       /\ Cardinality(Range(approvals) \cap NamedUsers(Rules[i].value))
            >= Rules[i].value.requiredApproverCount
  /\ \E j \in 1..Len(Rules) : ~RuleMatches(Rules[j]) /\ NamesAbsentTeam(Rules[j])

\* C7: no warning is ever about a requirement of 0 approvers, a matched rule
\* with requiredApproverCount = 0 gets its info message whenever check
\* returns, and a false result of check is always owed to a matched rule
\* that requires at least one approver.
C7_ZeroCountNeverFails ==
  CheckDone =>
    /\ \A k \in 1..Len(checkResult.log) :
         checkResult.log[k].level = "warning"
           => checkResult.log[k].required > 0
    /\ CheckReturned =>
         /\ \A i \in 1..Len(Rules) :
              (RuleMatches(Rules[i]) /\ Rules[i].value.requiredApproverCount = 0)
                => \E k \in 1..Len(checkResult.log) :
                     checkResult.log[k] = InfoMessage(Rules[i].key)
         /\ ~checkResult.approved
              => \E i \in 1..Len(Rules) :
                   /\ RuleMatches(Rules[i])
                   /\ Rules[i].value.requiredApproverCount > 0

\* a matched rule with count 0 passes with no approval at all
C7_Witness ==
  /\ CheckReturned
  /\ approvals = <<>>
  /\ checkResult.approved
  /\ \E i \in 1..Len(Rules) :
       RuleMatches(Rules[i]) /\ Rules[i].value.requiredApproverCount = 0

Outcome(result) ==
  IF result.outcome = "returned" THEN <<"returned", result.approved>>
  ELSE <<result.outcome>>

\* the rules of a mapping declared in one fixed order of their prefixes,
\* whatever the order they were declared in
KeyOrder == <<<<"s", "a">>, <<"1">>, <<"s">>>>

Reordered(m) ==
  LET keys == SelectSeq(KeyOrder, LAMBDA k : k \in Range(DeclaredKeys(m)))
  IN  [i \in 1..Len(keys) |-> [key |-> keys[i], value |-> Lookup(m, keys[i])]]

\* C8: the outcome of check (the boolean returned, or the error) on the rules
\* as declared is the outcome on the same rules declared in the fixed order
\* KeyOrder, and when check returns the same messages are emitted; so every
\* two declaration orders of the same rules give the same outcome.
C8_OrderIndependent ==
  CheckDone =>
    LET other == check([Policy EXCEPT !.reviewers = Reordered(Rules)],
                       modifiedFilepaths, approvals)
    IN  /\ Range(Reordered(Rules)) = Range(Rules)
        /\ Outcome(other) = Outcome(checkResult)
        /\ CheckReturned => Range(other.log) = Range(checkResult.log)

\* two matched rules, declared in another order than KeyOrder, of which the
\* first declared fails and the second passes
C8_Witness ==
  /\ CheckReturned
  /\ ~checkResult.approved
  /\ Len(Rules) = 2
  /\ Reordered(Rules) # Rules
  /\ RuleMatches(Rules[1]) /\ ~RuleSatisfied(Rules[1])
  /\ RuleMatches(Rules[2]) /\ RuleSatisfied(Rules[2])

MatchedRules == SelectSeq(Rules, RuleMatches)

\* msg is the message of rule: the info message carries the rule's prefix;
\* the warning carries the rule's affected files, requirement, users and
\* teams, and the approvals that count for it
IsMessageOf(msg, rule) ==
  IF RuleSatisfied(rule)
  THEN msg = InfoMessage(rule.key)
  ELSE /\ msg.level = "warning"
       /\ msg.files = SelectSeq(modifiedFilepaths,
                                LAMBDA path : IsPrefixOf(rule.key, path))
       /\ msg.required = rule.value.requiredApproverCount
       /\ msg.users = rule.value.users
       /\ msg.teams = rule.value.teams
       /\ Range(msg.found) = Range(approvals) \cap ResolvedApprovers(rule)
       /\ msg.count = Cardinality(Range(msg.found))

\* C9: in a call of check that returns, the log holds exactly one message
\* per matched rule, in the declared order of the rules (a warning if the
\* rule fails, an info if it passes), nothing for unmatched rules, and check
\* returns false exactly when a warning was emitted.
C9_OneMessagePerMatchedRuleInDeclaredOrder ==
  CheckReturned =>
    /\ Len(checkResult.log) = Len(MatchedRules)
    /\ \A k \in 1..Len(MatchedRules) :
         IsMessageOf(checkResult.log[k], MatchedRules[k])
    /\ ~checkResult.approved
         <=> \E k \in 1..Len(checkResult.log) : checkResult.log[k].level = "warning"

----------------------------------------------------------------------------
(* SpecOverride: one call of checkOverride on every override list, file    *)
(* list and committer list.                                                *)

InitOverride ==
  /\ pc = "checkOverride.call"
  /\ reviewersConfig \in
       {Some([teams |-> None, reviewers |-> <<>>, overrides |-> Some(o)]) :
          o \in SeqsUpTo(OverridePool, MaxOverrides)}
  /\ modifiedFilepaths \in FileLists(MaxFiles)
  /\ committers \in SeqsUpTo(CommitterPool, MaxCommits)
  /\ approvals = <<>>
  /\ checkResult = NotCalled
  /\ overrideResult = NotCalled
  /\ prReviews = <<>>
  /\ reviewIdx = 1
  /\ reviewStatus = <<>>
  /\ postReview = FALSE
  /\ eventName = "pull_request"
  /\ approved = None
  /\ override = None
  /\ postedReviews = <<>>
  /\ failedMessages = <<>>
  /\ evaluated = <<>>
  /\ verdict = "none"

CallCheckOverride ==
  /\ pc = "checkOverride.call"
  /\ overrideResult' =
       [outcome |-> "returned",
        value |-> checkOverride(Get(Get(reviewersConfig).overrides),
                                modifiedFilepaths, committers)]
  /\ pc' = "checkOverride.done"
  /\ UNCHANGED <<reviewersConfig, modifiedFilepaths, approvals, committers,
                 checkResult, prReviews, reviewIdx, reviewStatus, postReview,
                 eventName, approved, override, postedReviews, failedMessages,
                 evaluated, verdict>>

NextOverride == CallCheckOverride

SpecOverride == InitOverride /\ [][NextOverride]_vars

----------------------------------------------------------------------------
(* SpecApprovals: getApprovals over every chronological list of reviews,   *)
(* one forEach callback at a time, then the collecting loop.               *)

InitApprovals ==
  /\ pc = "getApprovals.forEach"
  /\ prReviews \in SeqsUpTo(ReviewPool, MaxReviews)
  /\ reviewIdx = 1
  /\ reviewStatus = <<>>
  /\ approvals = <<>>
  /\ reviewersConfig = None
  /\ modifiedFilepaths = <<>>
  /\ committers = <<>>
  /\ checkResult = NotCalled
  /\ overrideResult = NotCalled
  /\ postReview = FALSE
  /\ eventName = "pull_request"
  /\ approved = None
  /\ override = None
  /\ postedReviews = <<>>
  /\ failedMessages = <<>>
  /\ evaluated = <<>>
  /\ verdict = "none"

ApprovalsForEach ==
  /\ pc = "getApprovals.forEach"
  /\ reviewIdx <= Len(prReviews)
  /\ reviewStatus' = recordReview(reviewStatus, prReviews[reviewIdx])
  /\ reviewIdx' = reviewIdx + 1
  /\ UNCHANGED <<pc, reviewersConfig, modifiedFilepaths, approvals, committers,
                 checkResult, overrideResult, prReviews, postReview, eventName,
                 approved, override, postedReviews, failedMessages, evaluated,
                 verdict>>

ApprovalsCollect ==
  /\ pc = "getApprovals.forEach"
  /\ reviewIdx > Len(prReviews)
  /\ approvals' = collectApprovals(reviewStatus)
  /\ pc' = "getApprovals.done"
  /\ UNCHANGED <<reviewersConfig, modifiedFilepaths, committers, checkResult,
                 overrideResult, prReviews, reviewIdx, reviewStatus, postReview,
                 eventName, approved, override, postedReviews, failedMessages,
                 evaluated, verdict>>

NextApprovals == ApprovalsForEach \/ ApprovalsCollect

SpecApprovals == InitApprovals /\ [][NextApprovals]_vars

----------------------------------------------------------------------------
(* Properties of checkOverride.                                             *)

Overrides == Get(Get(reviewersConfig).overrides)

\* what the three patterns of the model match: "^s" a path that begins with
\* s, "s$" a path that ends with s, "1" a path that contains 1
PatternMatches(pattern, path) ==
  CASE pattern = <<"^", "s">> -> Len(path) >= 1 /\ path[1] = "s"
    [] pattern = <<"s", "$">> -> Len(path) >= 1 /\ path[Len(path)] = "s"
    [] pattern = <<"1">> -> "1" \in Range(path)

UsersClauseHolds(entry) ==
  IsSome(entry.onlyModifiedByUsers) =>
    /\ Undefined \notin Range(committers)
    /\ Range(committers) \subseteq Range(Get(entry.onlyModifiedByUsers))

FilesClauseHolds(entry) ==
  IsSome(entry.onlyModifiedFileRegExs) =>
    \A path \in Range(modifiedFilepaths) :
      \E pattern \in Range(Get(entry.onlyModifiedFileRegExs)) :
        PatternMatches(pattern, path)

EntrySatisfied(entry) == UsersClauseHolds(entry) /\ FilesClauseHolds(entry)

OverrideDone == pc = "checkOverride.done"

\* C2: checkOverride returns true exactly when some override entry satisfies
\* all the clauses it has: every committer defined and allowed, every
\* modified path matched by some pattern, an absent clause holding vacuously;
\* false for an empty list, true when some entry has no clause.
C2_OverrideIffSomeEntrySatisfied ==
  OverrideDone =>
    /\ overrideResult.value
         <=> \E i \in 1..Len(Overrides) : EntrySatisfied(Overrides[i])
    /\ Overrides = <<>> => ~overrideResult.value
    /\ (\E i \in 1..Len(Overrides) :
          /\ ~IsSome(Overrides[i].onlyModifiedByUsers)
          /\ ~IsSome(Overrides[i].onlyModifiedFileRegExs))
         => overrideResult.value
    /\ (/\ Undefined \in Range(committers)
        /\ \A i \in 1..Len(Overrides) : IsSome(Overrides[i].onlyModifiedByUsers))
         => ~overrideResult.value

\* only the second of two entries is satisfied; it has both clauses, and the
\* first fails on its file clause alone
C2_Witness ==
  /\ OverrideDone
  /\ overrideResult.value
  /\ Len(Overrides) = 2
  /\ UsersClauseHolds(Overrides[1]) /\ ~FilesClauseHolds(Overrides[1])
  /\ IsSome(Overrides[1].onlyModifiedByUsers)
  /\ IsSome(Overrides[2].onlyModifiedByUsers)
  /\ IsSome(Overrides[2].onlyModifiedFileRegExs)
  /\ Len(committers) = 2
  /\ Len(modifiedFilepaths) = 2

----------------------------------------------------------------------------
(* Properties of getApprovals.                                              *)

\* positions among the first n reviews where user left a review that is not
\* COMMENTED
SignificantReviews(user, n) ==
  {i \in 1..n : prReviews[i].user = user /\ prReviews[i].state # "COMMENTED"}

Latest(positions) == CHOOSE i \in positions : \A j \in positions : j <= i

LatestStateIs(user, n, state) ==
  /\ SignificantReviews(user, n) # {}
  /\ prReviews[Latest(SignificantReviews(user, n))].state = state

RecordedStates(user) ==
  {reviewStatus[k].value : k \in {j \in 1..Len(reviewStatus) :
                                    reviewStatus[j].key = user}}

\* C4: after each review processed, the state recorded for a user is that of
\* the user's latest review that is not COMMENTED (nothing is recorded for
\* reviews without a user); at the end a user is in the approvals exactly
\* when that latest state is APPROVED, and at most once.
C4_LatestNonCommentDecides ==
  /\ \A user \in ReviewerLogins :
       \A state \in ReviewStates :
         state \in RecordedStates(user)
           <=> LatestStateIs(user, reviewIdx - 1, state)
  /\ RecordedStates(Null) = {}
  /\ pc = "getApprovals.done" =>
       /\ \A user \in ReviewerLogins :
            user \in Range(approvals)
              <=> LatestStateIs(user, Len(prReviews), "APPROVED")
       /\ NoDup(approvals)
       /\ Range(approvals) \subseteq ReviewerLogins

\* one user approves twice around a comment, another approves and then asks
\* for changes: only the first is in the result, once
C4_Witness ==
  /\ pc = "getApprovals.done"
  /\ Len(prReviews) = 3
  /\ \E u \in Users :
       /\ prReviews[1] = [user |-> u, state |-> "CHANGES_REQUESTED"]
       /\ prReviews[2] = [user |-> u, state |-> "APPROVED"]
       /\ prReviews[3] = [user |-> u, state |-> "COMMENTED"]
       /\ approvals = <<u>>

----------------------------------------------------------------------------
(* SpecRun: run().  A step is the code between two awaits.  Every request  *)
(* to the API (getContent, listFiles, listReviews, listCommits,            *)
(* createReview) may reject; the catch block then marks the run failed     *)
(* with the error's message.                                               *)

UnexpectedEvent == "Action invoked on unexpected event type"
\* mutant: the missing policy is reported with the message of a rejection
NoConfig_RejectionMessage == "Missing required approvals."

NoConfig == "Unable to retrieve .github/reviewers.json"
MissingApprovals == "Missing required approvals."
RequestError == "RequestError"

setFailed(message) == failedMessages' = Append(failedMessages, message)

\* getPrNumber: defined for the two pull request events only
getPrNumber(event) ==
  IF event = "pull_request" \/ event = "pull_request_review"
  THEN Some(1) ELSE None

AwaitingRequest ==
  {"run.loadConfig", "run.getModifiedFilepaths", "run.getApprovals",
   "run.getCommiters", "run.createReview.REQUEST_CHANGES",
   "run.createReview.APPROVE"}

InitRun ==
  /\ pc = "run.start"
  /\ postReview \in BOOLEAN
  /\ eventName \in EventNames
  /\ reviewersConfig = None
  /\ modifiedFilepaths = <<>>
  /\ approvals = <<>>
  /\ committers = <<>>
  /\ checkResult = NotCalled
  /\ overrideResult = NotCalled
  /\ prReviews = <<>>
  /\ reviewIdx = 1
  /\ reviewStatus = <<>>
  /\ approved = None
  /\ override = None
  /\ postedReviews = <<>>
  /\ failedMessages = <<>>
  /\ evaluated = <<>>
  /\ verdict = "none"

\* lines 231-246: inputs, getPrNumber, the call of loadConfig
RunStart ==
  /\ pc = "run.start"
  /\ IF IsSome(getPrNumber(eventName))
     THEN pc' = "run.loadConfig" /\ UNCHANGED failedMessages
     ELSE pc' = "run.done" /\ setFailed(UnexpectedEvent)
  /\ UNCHANGED <<reviewersConfig, modifiedFilepaths, approvals, committers,
                 checkResult, overrideResult, prReviews, reviewIdx,
                 reviewStatus, postReview, eventName, approved, override,
                 postedReviews, evaluated, verdict>>

\* lines 246-258: loadConfig resolves with the parsed policy
RunLoadConfig ==
  /\ pc = "run.loadConfig"
  /\ \E config \in RunConfigs : reviewersConfig' = Some(config)
  /\ pc' = "run.getModifiedFilepaths"
  /\ UNCHANGED <<modifiedFilepaths, approvals, committers, checkResult,
                 overrideResult, prReviews, reviewIdx, reviewStatus, postReview,
                 eventName, approved, override, postedReviews, failedMessages,
                 evaluated, verdict>>

\* lines 57-59, 247-250: the response has no content, loadConfig resolves
\* with undefined
RunLoadConfigUndefined ==
  /\ pc = "run.loadConfig"
  /\ reviewersConfig' = None
  /\ setFailed(NoConfig)
  /\ pc' = "run.done"
  /\ UNCHANGED <<modifiedFilepaths, approvals, committers, checkResult,
                 overrideResult, prReviews, reviewIdx, reviewStatus, postReview,
                 eventName, approved, override, postedReviews, evaluated,
                 verdict>>

\* lines 254-259
RunGetModifiedFilepaths ==
  /\ pc = "run.getModifiedFilepaths"
  /\ modifiedFilepaths' \in RunFiles
  /\ pc' = "run.getApprovals"
  /\ UNCHANGED <<reviewersConfig, approvals, committers, checkResult,
                 overrideResult, prReviews, reviewIdx, reviewStatus, postReview,
                 eventName, approved, override, postedReviews, failedMessages,
                 evaluated, verdict>>

\* lines 259-260, 105-126
RunGetApprovals ==
  /\ pc = "run.getApprovals"
  /\ \E reviews \in RunReviews :
       /\ prReviews' = reviews
       /\ reviewStatus' = recordReviews(<<>>, reviews, 1)
       /\ reviewIdx' = Len(reviews) + 1
       /\ approvals' = getApprovals(reviews)
  /\ pc' = "run.getCommiters"
  /\ UNCHANGED <<reviewersConfig, modifiedFilepaths, committers, checkResult,
                 overrideResult, postReview, eventName, approved, override,
                 postedReviews, failedMessages, evaluated, verdict>>

\* lines 260, 135-140
RunGetCommiters ==
  /\ pc = "run.getCommiters"
  /\ committers' \in RunCommitters
  /\ pc' = "run.evaluate"
  /\ UNCHANGED <<reviewersConfig, modifiedFilepaths, approvals, checkResult,
                 overrideResult, prReviews, reviewIdx, reviewStatus, postReview,
                 eventName, approved, override, postedReviews, failedMessages,
                 evaluated, verdict>>

\* mutant: a policy without an overrides key waives every failure
overrideApplies_AbsentKeyWaives(config, files, modifiedByUsers) ==
  ~IsSome(config.overrides)
    \/ checkOverride(Get(config.overrides), files, modifiedByUsers)

\* `reviewersConfig.overrides !== undefined && checkOverride(...)`
overrideApplies(config, files, modifiedByUsers) ==
  IsSome(config.overrides) /\ checkOverride(Get(config.overrides), files, modifiedByUsers)

\* lines 264-305, up to the call of createReview or the end of run: check,
\* the override, and the branch on the verdict
RunEvaluate ==
  /\ pc = "run.evaluate"
  /\ LET config == Get(reviewersConfig)
         result == check(config, modifiedFilepaths, approvals)
         consulted == IsSome(config.overrides)
         overridden == overrideApplies(config, modifiedFilepaths, committers)
     IN  /\ checkResult' = result
         /\ IF result.outcome = "thrown"
            THEN \* line 306: catch
                 /\ setFailed(result.error)
                 /\ pc' = "run.done"
                 /\ evaluated' = <<"check">>
                 /\ UNCHANGED <<approved, override, overrideResult, verdict>>
            ELSE /\ approved' = Some(result.approved)
                 /\ IF result.approved
                    THEN /\ evaluated' = <<"check">>
                         /\ verdict' = "approved"
                         /\ pc' = IF postReview THEN "run.createReview.APPROVE"
                                  ELSE "run.done"
                         /\ UNCHANGED <<override, overrideResult, failedMessages>>
                    ELSE /\ evaluated' = IF consulted
                                         THEN <<"check", "checkOverride">>
                                         ELSE <<"check">>
                         /\ overrideResult' =
                              IF consulted
                              THEN [outcome |-> "returned", value |-> overridden]
                              ELSE NotCalled
                         /\ override' = Some(overridden)
                         /\ IF ~overridden
                            THEN /\ verdict' = "rejected"
                                 /\ IF postReview
                                    THEN /\ pc' = "run.createReview.REQUEST_CHANGES"
                                         /\ UNCHANGED failedMessages
                                    ELSE /\ setFailed(MissingApprovals)
                                         /\ pc' = "run.done"
                            ELSE /\ verdict' = "approved"
                                 /\ pc' = IF postReview
                                          THEN "run.createReview.APPROVE"
                                          ELSE "run.done"
                                 /\ UNCHANGED failedMessages
  /\ UNCHANGED <<reviewersConfig, modifiedFilepaths, approvals, committers,
                 prReviews, reviewIdx, reviewStatus, postReview, eventName,
                 postedReviews>>

\* mutant: no `return` after the REQUEST_CHANGES review, run() goes on to
\* the approving part
RunReviewCreated_NoReturn ==
  /\ pc \in {"run.createReview.REQUEST_CHANGES", "run.createReview.APPROVE"}
  /\ postedReviews' =
       Append(postedReviews,
              IF pc = "run.createReview.APPROVE" THEN "APPROVE"
              ELSE "REQUEST_CHANGES")
  /\ pc' = IF pc = "run.createReview.REQUEST_CHANGES"
           THEN "run.createReview.APPROVE" ELSE "run.done"
  /\ UNCHANGED <<reviewersConfig, modifiedFilepaths, approvals, committers,
                 checkResult, overrideResult, prReviews, reviewIdx,
                 reviewStatus, postReview, eventName, approved, override,
                 failedMessages, evaluated, verdict>>

\* lines 280-289 and 297-305: createReview resolves
RunReviewCreated ==
  /\ pc \in {"run.createReview.REQUEST_CHANGES", "run.createReview.APPROVE"}
  /\ postedReviews' =
       Append(postedReviews,
              IF pc = "run.createReview.APPROVE" THEN "APPROVE"
              ELSE "REQUEST_CHANGES")
  /\ pc' = "run.done"
  /\ UNCHANGED <<reviewersConfig, modifiedFilepaths, approvals, committers,
                 checkResult, overrideResult, prReviews, reviewIdx,
                 reviewStatus, postReview, eventName, approved, override,
                 failedMessages, evaluated, verdict>>

\* lines 306-310: an awaited request rejects with an Error
RunRequestRejected ==
  /\ pc \in AwaitingRequest
  /\ setFailed(RequestError)
  /\ pc' = "run.done"
  /\ UNCHANGED <<reviewersConfig, modifiedFilepaths, approvals, committers,
                 checkResult, overrideResult, prReviews, reviewIdx,
                 reviewStatus, postReview, eventName, approved, override,
                 postedReviews, evaluated, verdict>>

NextRun ==
  \/ RunStart
  \/ RunLoadConfig
  \/ RunLoadConfigUndefined
  \/ RunGetModifiedFilepaths
  \/ RunGetApprovals
  \/ RunGetCommiters
  \/ RunEvaluate
  \/ RunReviewCreated
  \/ RunRequestRejected

SpecRun == InitRun /\ [][NextRun]_vars

----------------------------------------------------------------------------
(* Properties of run.                                                       *)

Evaluated == evaluated # <<>>
CheckPassed == checkResult.outcome = "returned" /\ checkResult.approved
CheckFailed == checkResult.outcome = "returned" /\ ~checkResult.approved
HasOverrides == IsSome(Policy.overrides)

\* the policy has an overrides list and one of its entries is satisfied
OverrideSatisfied ==
  /\ HasOverrides
  /\ \E i \in 1..Len(Overrides) : EntrySatisfied(Overrides[i])

\* C5: once the four inputs are there and evaluation has run, the verdict is
\* approved exactly when check returned true, or returned false while the
\* policy has an overrides list with a satisfied entry; checkOverride is
\* called only after check returned false; without an overrides key, as with
\* an empty list, a failed check stays rejected.
C5_VerdictFromCheckAndOverride ==
  Evaluated =>
    /\ verdict = "approved" <=> (CheckPassed \/ (CheckFailed /\ OverrideSatisfied))
    /\ verdict = "rejected" <=> (CheckFailed /\ ~OverrideSatisfied)
    /\ evaluated[1] = "check"
    /\ "checkOverride" \in Range(evaluated) =>
         /\ evaluated = <<"check", "checkOverride">>
         /\ CheckFailed
         /\ HasOverrides
    /\ (CheckFailed /\ (~HasOverrides \/ Policy.overrides = Some(<<>>)))
         => verdict = "rejected"

\* a failed check is waived by an override and the approving review is sent
C5_Witness ==
  /\ pc = "run.done"
  /\ CheckFailed
  /\ verdict = "approved"
  /\ evaluated = <<"check", "checkOverride">>
  /\ postedReviews = <<"APPROVE">>

\* what the collaborator sees of a finished run
Observed == [reviews |-> postedReviews, failures |-> failedMessages]

RejectedObserved(posting) ==
  IF posting THEN [reviews |-> <<"REQUEST_CHANGES">>, failures |-> <<>>]
  ELSE [reviews |-> <<>>, failures |-> <<MissingApprovals>>]

\* the run asked for the policy and ended without one
PolicyUnavailable ==
  /\ pc = "run.done"
  /\ IsSome(getPrNumber(eventName))
  /\ reviewersConfig = None

\* the run evaluated, rejected, and delivered the rejection
RejectionDelivered ==
  /\ pc = "run.done"
  /\ verdict = "rejected"
  /\ failedMessages # <<RequestError>>

\* C6: a run that cannot obtain the policy ends failed, with neither
\* evaluator called and no review posted, and what it leaves differs from
\* what a delivered rejection leaves, with post-review on and off.
C6_NoPolicyIsNotARejection ==
  /\ PolicyUnavailable =>
       /\ evaluated = <<>>
       /\ checkResult = NotCalled /\ overrideResult = NotCalled
       /\ verdict = "none"
       /\ postedReviews = <<>>
       /\ Len(failedMessages) = 1
       /\ \A posting \in BOOLEAN : Observed # RejectedObserved(posting)
  /\ RejectionDelivered => Observed = RejectedObserved(postReview)

\* loadConfig resolved with undefined in a run with post-review on
C6_Witness ==
  /\ PolicyUnavailable
  /\ postReview
  /\ failedMessages = <<NoConfig>>

Count(seq, x) == Cardinality({i \in 1..Len(seq) : seq[i] = x})

\* the reviews sent or being sent through createReview
ReviewEvents ==
  Range(postedReviews) \cup
    (IF pc = "run.createReview.APPROVE" THEN {"APPROVE"} ELSE {}) \cup
    (IF pc = "run.createReview.REQUEST_CHANGES" THEN {"REQUEST_CHANGES"} ELSE {})

\* C10: a run takes at most one verdict action; APPROVE only with
\* post-review on and an approved verdict, REQUEST_CHANGES only with
\* post-review on, a failed check and no override, the failure "Missing
\* required approvals." only with post-review off, a failed check and no
\* override; never APPROVE together with one of the other two.
C10_AtMostOneVerdictAction ==
  /\ Cardinality(ReviewEvents) + Count(failedMessages, MissingApprovals) <= 1
  /\ Len(postedReviews) <= 1
  /\ "APPROVE" \in ReviewEvents =>
       /\ postReview
       /\ verdict = "approved"
       /\ CheckPassed \/ (CheckFailed /\ OverrideSatisfied)
  /\ "REQUEST_CHANGES" \in ReviewEvents =>
       postReview /\ CheckFailed /\ ~OverrideSatisfied
  /\ MissingApprovals \in Range(failedMessages) =>
       ~postReview /\ CheckFailed /\ ~OverrideSatisfied

\* a rejecting review was posted
C10_Witness ==
  /\ pc = "run.done"
  /\ postedReviews = <<"REQUEST_CHANGES">>
  /\ HasOverrides /\ Overrides # <<>>

====
